---- MODULE Spec2Model ----
(***************************************************************************)
(* Model of the game team system (src/app.py): the players and teams       *)
(* tables, the two request tables, the team registry primitives, the       *)
(* identity-change and membership-change approval workflows and the        *)
(* selection-consistency sweep.                                            *)
(*                                                                         *)
(* Every function of the data-operation module is one action.  The store   *)
(* is the Supabase database: a table is a function (players, teams) or a   *)
(* sequence of rows in insertion order (the request tables, whose serial   *)
(* id is the row's index).                                                 *)
(***************************************************************************)
EXTENDS Integers, Sequences, FiniteSets, TLC

VARIABLES players, teams, teamReqs, idReqs, last, calls

vars == <<players, teams, teamReqs, idReqs, last, calls>>

(***************************************************************************)
(* Program constants (class Config).                                       *)
(***************************************************************************)
MAX_TEAM_SIZE == 6
MIN_TEAM_SIZE == 2

(***************************************************************************)
(* Bounds of the model.                                                    *)
(***************************************************************************)
NumPlayers == 3
MaxTeams == 1
\* teams that step-by-step creates may insert
RaceTeams == 2
\* players on the roster when two add_member approvals race
RaceRoster == 4
MaxTeamReqs == 1
MaxIdReqs == 1
NumProcs == 2
RenameTeams == 2
RejectReqs == 2
ApproveReqs == 2
\* a roster large enough for a team of MAX_TEAM_SIZE + 1
BigRoster == MAX_TEAM_SIZE + 1

(***************************************************************************)
(* Names.  A game_id is a string; "" stands for Python's None / SQL NULL.  *)
(***************************************************************************)
None == ""
RosterIds == <<"A", "B", "C", "D", "E", "F", "G", "H", "I">>
FreshIds == {"N"}
GAME_CLASSES == {"c1", "c2"}

Range(s) == {s[i] : i \in DOMAIN s}

RECURSIVE SeqsOfLen(_, _)
SeqsOfLen(S, n) ==
    IF n = 0 THEN {<<>>}
    ELSE {Append(s, x) : s \in SeqsOfLen(S, n - 1), x \in S}

SeqsUpTo(S, n) == UNION {SeqsOfLen(S, k) : k \in 0..n}

Max(S) == CHOOSE x \in S : \A y \in S : y <= x

(***************************************************************************)
(* The players table: display_id -> row.                                   *)
(***************************************************************************)
PlayerIds == {players[d].game_id : d \in DOMAIN players}

RosterPrefixIds(n) == [d \in 1..n |-> RosterIds[d]]

Roster(n) ==
    [d \in 1..n |-> [game_id |-> RosterIds[d], class |-> "c1", is_selected |-> FALSE]]

\* supabase.table('players').update({"is_selected": v}).eq("game_id", g)
SetSelected(ps, g, v) ==
    [d \in DOMAIN ps |->
        IF ps[d].game_id = g THEN [ps[d] EXCEPT !.is_selected = v] ELSE ps[d]]

\* variant: only the first element of the list is written
SetSelectedFirst(ps, list, v) ==
    IF list = <<>> THEN ps ELSE SetSelected(ps, Head(list), v)

\* the same write for each element of a list, in list order
RECURSIVE SetSelectedAll(_, _, _)
SetSelectedAll(ps, list, v) ==
    IF list = <<>> THEN ps
    ELSE SetSelectedAll(SetSelected(ps, Head(list), v), Tail(list), v)

\* [m for m in members if m != x]
Without(members, x) == SelectSeq(members, LAMBDA m : m # x)

(***************************************************************************)
(* The record of the operation that ran last: its name, its arguments and  *)
(* the value it returned.                                                  *)
(***************************************************************************)
NoLast ==
    [op |-> "init", ok |-> TRUE, team_id |-> 0, req_id |-> 0, who |-> None,
     kind |-> None, target |-> None, members |-> <<>>, fp |-> {}, fn |-> {}, writes |-> 0, fail |-> "none"]

(***************************************************************************)
(* The calls in progress, one for each session: the function that runs,    *)
(* the statement it has reached and its local variables.  A function that  *)
(* runs with no other session active is a single action and leaves calls   *)
(* alone.                                                                  *)
(***************************************************************************)
Procs == 1..NumProcs

NoCall ==
    [op |-> "idle", pc |-> "idle", team_id |-> 0, captain |-> None, list |-> <<>>,
     seen |-> {}, next_id |-> 0, i |-> 0, ret |-> FALSE,
     req_id |-> 0, old_id |-> None, new_id |-> None, snap |-> <<>>,
     changed |-> {}, todo |-> {}, requests |-> {}, pending_requests |-> {}]

NoCalls == [p \in Procs |-> NoCall]

Init ==
    /\ calls = NoCalls
    /\ players = Roster(NumPlayers)
    /\ teams = <<>>
    /\ teamReqs = <<>>
    /\ idReqs = <<>>
    /\ last = NoLast

(***************************************************************************)
(* The teams table: id -> [captain, members].                              *)
(***************************************************************************)
TeamIds == DOMAIN teams

\* insert of a row / update of a row's columns / delete of a row
InsertTeam(ts, id, row) ==
    [i \in DOMAIN ts \cup {id} |-> IF i = id THEN row ELSE ts[i]]

DeleteTeam(ts, id) == [i \in DOMAIN ts \ {id} |-> ts[i]]

\* variant: the members are not collected
TeamCaptainsOnly(ts) == {ts[i].captain : i \in DOMAIN ts}

\* union of all teams' captain and members
TeamPlayers(ts) ==
    UNION {{ts[i].captain} \cup Range(ts[i].members) : i \in DOMAIN ts}

(***************************************************************************)
(* create_team_in_db(captain, members)                                     *)
(***************************************************************************)
\* select id ... order by id desc limit 1; next_id = 1 if none else max + 1
NextTeamId(ts) == IF DOMAIN ts = {} THEN 1 ELSE Max(DOMAIN ts) + 1

\* variant: the upper check compares len(members) alone
CreateSizeOkOffByOne(members) ==
    /\ ~(Len(members) > MAX_TEAM_SIZE)
    /\ ~(Len(members) + 1 < MIN_TEAM_SIZE)

\* the two size checks made after the captain is filtered out of members
CreateSizeOk(members) ==
    /\ ~(Len(members) + 1 > MAX_TEAM_SIZE)
    /\ ~(Len(members) + 1 < MIN_TEAM_SIZE)

CreateTeam(captain, input) ==
    LET members == Without(input, captain)
        next_id == NextTeamId(teams)
        rec == [NoLast EXCEPT !.op = "create_team_in_db", !.who = captain,
                              !.members = input]
    IN  IF CreateSizeOk(members)
        THEN /\ next_id <= MaxTeams
             /\ teams' = InsertTeam(teams, next_id,
                                    [captain |-> captain, members |-> members])
             /\ players' = SetSelectedAll(players, <<captain>> \o members, TRUE)
             /\ last' = [rec EXCEPT !.ok = TRUE, !.team_id = next_id]
             /\ UNCHANGED <<teamReqs, idReqs>>
        ELSE /\ last' = [rec EXCEPT !.ok = FALSE]
             /\ UNCHANGED <<players, teams, teamReqs, idReqs>>

(***************************************************************************)
(* delete_team_from_db(team_id, members)                                   *)
(***************************************************************************)
DeleteTeamFromDb(team_id, participants) ==
    /\ players' = SetSelectedAll(players, participants, FALSE)
    /\ teams' = DeleteTeam(teams, team_id)
    /\ last' = [NoLast EXCEPT !.op = "delete_team_from_db",
                              !.ok = (team_id \in TeamIds),
                              !.team_id = team_id, !.members = participants]
    /\ UNCHANGED <<teamReqs, idReqs>>

(***************************************************************************)
(* update_team_members(team_id, members)                                   *)
(***************************************************************************)
\* len(members) != len(set(members))
\* variant: only neighbouring entries are compared
HasAdjacentDuplicates(members) ==
    \E i \in 1..(Len(members) - 1) : members[i] = members[i + 1]

HasDuplicates(members) == Len(members) # Cardinality(Range(members))

UpdateTeamMembers(team_id, members) ==
    LET rec == [NoLast EXCEPT !.op = "update_team_members", !.team_id = team_id,
                              !.members = members]
    IN  IF HasDuplicates(members) \/ team_id \notin TeamIds
        THEN /\ last' = [rec EXCEPT !.ok = FALSE]
             /\ UNCHANGED <<players, teams, teamReqs, idReqs>>
        ELSE /\ teams' = [teams EXCEPT ![team_id].members = members]
             /\ last' = [rec EXCEPT !.ok = TRUE]
             /\ UNCHANGED <<players, teamReqs, idReqs>>

(***************************************************************************)
(* update_team_captain(team_id, new_captain)                               *)
(***************************************************************************)
\* new_captain not in current_members and new_captain != current_captain
CaptainRejected(team, new_captain) ==
    new_captain \notin Range(team.members) /\ new_captain # team.captain

\* variant: the old captain is put first
HandoverMembersPrepend(team, new_captain) ==
    <<team.captain>> \o SelectSeq(team.members, LAMBDA m : m # new_captain)

\* [m for m in current_members if m != new_captain] + [current_captain]
HandoverMembers(team, new_captain) ==
    Append(Without(team.members, new_captain), team.captain)

UpdateTeamCaptain(team_id, new_captain) ==
    LET rec == [NoLast EXCEPT !.op = "update_team_captain", !.team_id = team_id,
                              !.who = new_captain]
    IN  IF team_id \notin TeamIds
        THEN /\ last' = [rec EXCEPT !.ok = FALSE]
             /\ UNCHANGED <<players, teams, teamReqs, idReqs>>
        ELSE IF CaptainRejected(teams[team_id], new_captain)
        THEN /\ last' = [rec EXCEPT !.ok = FALSE]
             /\ UNCHANGED <<players, teams, teamReqs, idReqs>>
        ELSE /\ teams' = [teams EXCEPT
                    ![team_id] = [captain |-> new_captain,
                                  members |-> HandoverMembers(teams[team_id], new_captain)]]
             /\ last' = [rec EXCEPT !.ok = TRUE]
             /\ UNCHANGED <<players, teamReqs, idReqs>>

(***************************************************************************)
(* remove_member_from_team(team_id, member_to_remove)                      *)
(***************************************************************************)
RemoveMemberFromTeam(team_id, member_to_remove) ==
    LET rec == [NoLast EXCEPT !.op = "remove_member_from_team",
                              !.team_id = team_id, !.who = member_to_remove]
        updated_members ==
            IF team_id \in TeamIds
            THEN Without(teams[team_id].members, member_to_remove) ELSE <<>>
    IN  IF team_id \notin TeamIds
        THEN /\ last' = [rec EXCEPT !.ok = FALSE]
             /\ UNCHANGED <<players, teams, teamReqs, idReqs>>
        ELSE IF member_to_remove \notin Range(teams[team_id].members)
        THEN /\ last' = [rec EXCEPT !.ok = FALSE]
             /\ UNCHANGED <<players, teams, teamReqs, idReqs>>
        ELSE IF HasDuplicates(updated_members)
        THEN \* update_team_members refuses: no write, no flag flip
             /\ last' = [rec EXCEPT !.ok = FALSE]
             /\ UNCHANGED <<players, teams, teamReqs, idReqs>>
        ELSE /\ teams' = [teams EXCEPT ![team_id].members = updated_members]
             /\ players' = SetSelected(players, member_to_remove, FALSE)
             /\ last' = [rec EXCEPT !.ok = TRUE]
             /\ UNCHANGED <<teamReqs, idReqs>>

(***************************************************************************)
(* check_and_fix_selection_consistency()                                   *)
(***************************************************************************)
\* all_players = {p['game_id']: p['is_selected'] for p in rows}: a later row
\* with the same game_id overwrites an earlier one
AllPlayers(ps) ==
    [g \in {ps[d].game_id : d \in DOMAIN ps} |->
        ps[Max({d \in DOMAIN ps : ps[d].game_id = g})].is_selected]

FalsePositives(ps, ts) ==
    {g \in DOMAIN AllPlayers(ps) : AllPlayers(ps)[g] /\ g \notin TeamPlayers(ts)}

\* variant: only captains are looked up in the teams
FalseNegativesCaptains(ps, ts) ==
    {g \in DOMAIN AllPlayers(ps) : ~AllPlayers(ps)[g] /\ g \in TeamCaptainsOnly(ts)}

FalseNegatives(ps, ts) ==
    {g \in DOMAIN AllPlayers(ps) : ~AllPlayers(ps)[g] /\ g \in TeamPlayers(ts)}

\* update({"is_selected": v}).in_('game_id', list(ids))
SetSelectedIn(ps, ids, v) ==
    [d \in DOMAIN ps |->
        IF ps[d].game_id \in ids THEN [ps[d] EXCEPT !.is_selected = v] ELSE ps[d]]

\* variant: only the false positives are repaired
SweepFixFpOnly(ps, ts) ==
    [d \in DOMAIN ps |->
        IF ps[d].game_id \in FalsePositives(ps, ts)
        THEN [ps[d] EXCEPT !.is_selected = FALSE] ELSE ps[d]]

SweepFix(ps, ts) ==
    SetSelectedIn(SetSelectedIn(ps, FalsePositives(ps, ts), FALSE),
                  FalseNegatives(ps, ts), TRUE)

CheckAndFix ==
    LET fp == FalsePositives(players, teams)
        fn == FalseNegatives(players, teams)
    IN  /\ players' = SweepFix(players, teams)
        /\ last' = [NoLast EXCEPT !.op = "check_and_fix_selection_consistency",
                                  !.ok = TRUE, !.fp = fp, !.fn = fn,
                                  !.writes = Cardinality(fp) + Cardinality(fn)]
        /\ UNCHANGED <<teams, teamReqs, idReqs>>

(***************************************************************************)
(* admin_panel, "reset selection state": every player row is written       *)
(* is_selected = False.                                                    *)
(***************************************************************************)
ResetSelection ==
    /\ players' = [d \in DOMAIN players |-> [players[d] EXCEPT !.is_selected = FALSE]]
    /\ last' = [NoLast EXCEPT !.op = "reset_selection"]
    /\ UNCHANGED <<teams, teamReqs, idReqs, calls>>

(***************************************************************************)
(* The team_change_requests table.  A row's id is its index.  The columns  *)
(* reason and created_at are free text and a clock reading that no         *)
(* operation reads back; they are left out.  processed_at is NULL (FALSE)  *)
(* or a timestamp (TRUE).                                                  *)
(***************************************************************************)
RequestTypes == {"change_captain", "add_member", "remove_member"}

\* request_data as first built (section 2 of create_team_change_request)
RequestData(team_id, request_type, requester_id, team) ==
    [team_id |-> team_id, request_type |-> request_type,
     requester_id |-> requester_id, current_captain |-> team.captain,
     proposed_captain |-> None, member_to_add |-> None,
     member_to_remove |-> None, original_request |-> None,
     status |-> "pending", processed_at |-> FALSE]

\* .select('is_selected').eq('game_id', g).single(): one row exactly, else
\* the call raises
HasSingleRow(ps, g) == Cardinality({d \in DOMAIN ps : ps[d].game_id = g}) = 1

IsSelected(ps, g) == \E d \in DOMAIN ps : ps[d].game_id = g /\ ps[d].is_selected

\* variant: the requester is proposed whoever it is
RewriteProposesRequester(data, team, requester_id, member_to_remove) ==
    [data EXCEPT !.request_type = "change_captain",
                 !.proposed_captain = requester_id,
                 !.original_request = "remove_member",
                 !.member_to_remove = member_to_remove]

\* variant: the request type is left as it was
RewriteKeepsType(data, team, requester_id, member_to_remove) ==
    [data EXCEPT !.proposed_captain = IF requester_id = team.captain
                                      THEN team.members[1] ELSE requester_id,
                 !.original_request = "remove_member",
                 !.member_to_remove = member_to_remove]

\* the rewrite of a remove_member request whose target is the captain
RewriteCaptainRemoval(data, team, requester_id, member_to_remove) ==
    IF requester_id = team.captain
    THEN [data EXCEPT !.request_type = "change_captain",
                      !.proposed_captain = team.members[1],
                      !.original_request = "remove_member",
                      !.member_to_remove = member_to_remove]
    ELSE [data EXCEPT !.request_type = "change_captain",
                      !.proposed_captain = requester_id,
                      !.original_request = "remove_member",
                      !.member_to_remove = member_to_remove]

\* variant: a member counts as the captain
IsCaptainOrListed(team, requester_id) ==
    requester_id = team.captain \/ requester_id \in Range(team.members)

\* is_captain = requester_id == team['captain']
IsCaptain(team, requester_id) == requester_id = team.captain

\* variant: anyone counts as a member
IsMemberAnyone(team, requester_id) == TRUE

\* is_member = is_captain or (requester_id in team['members'])
IsMember(team, requester_id) ==
    IsCaptain(team, requester_id) \/ requester_id \in Range(team.members)

\* the row create_team_change_request inserts: {row}, or {} when it raises
\* (target is the payload of the request type: proposed_captain,
\* member_to_add or member_to_remove; the other two are never read)
SubmittedRequest(team_id, request_type, requester_id, target) ==
    IF team_id \notin TeamIds THEN {}
    ELSE
    LET team == teams[team_id]
        is_captain == IsCaptain(team, requester_id)
        is_member == IsMember(team, requester_id)
        data == RequestData(team_id, request_type, requester_id, team)
    IN  IF ~is_member THEN {}
        ELSE IF request_type = "change_captain"
        THEN IF ~is_captain THEN {}
             ELSE IF target \notin Range(team.members) THEN {}
             ELSE {[data EXCEPT !.proposed_captain = target]}
        ELSE IF request_type = "add_member"
        THEN IF ~HasSingleRow(players, target) THEN {}
             ELSE IF IsSelected(players, target) THEN {}
             ELSE {[data EXCEPT !.member_to_add = target]}
        ELSE IF request_type = "remove_member"
        THEN IF target = team.captain
             THEN IF Len(team.members) < 1 THEN {}
                  ELSE {RewriteCaptainRemoval(data, team, requester_id, target)}
             ELSE IF target \notin Range(team.members) THEN {}
             ELSE {[data EXCEPT !.member_to_remove = target]}
        ELSE {}

CreateTeamChangeRequest(team_id, request_type, requester_id, target) ==
    LET rows == SubmittedRequest(team_id, request_type, requester_id, target)
        rec == [NoLast EXCEPT !.op = "create_team_change_request",
                              !.team_id = team_id, !.who = requester_id,
                              !.kind = request_type, !.target = target]
    IN  IF rows = {}
        THEN /\ last' = [rec EXCEPT !.ok = FALSE]
             /\ UNCHANGED <<players, teams, teamReqs, idReqs>>
        ELSE /\ Len(teamReqs) < MaxTeamReqs
             /\ teamReqs' = Append(teamReqs, CHOOSE row \in rows : TRUE)
             /\ last' = [rec EXCEPT !.ok = TRUE, !.req_id = Len(teamReqs) + 1]
             /\ UNCHANGED <<players, teams, idReqs>>

(***************************************************************************)
(* approve_team_change_request(request)                                    *)
(***************************************************************************)
\* variant: add_member does not look at the target's is_selected
ApproveRaisesNoRecheck(request) ==
    \/ request.team_id \notin TeamIds
    \/ /\ request.request_type = "remove_member"
       /\ request.member_to_remove = teams[request.team_id].captain
       /\ Len(teams[request.team_id].members) = 0
    \/ /\ request.request_type = "add_member"
       /\ ~HasSingleRow(players, request.member_to_add)

\* whether the body raises before its first write
ApproveRaises(request) ==
    \/ request.team_id \notin TeamIds
    \/ /\ request.request_type = "remove_member"
       /\ request.member_to_remove = teams[request.team_id].captain
       /\ Len(teams[request.team_id].members) = 0
    \/ /\ request.request_type = "add_member"
       /\ \/ ~HasSingleRow(players, request.member_to_add)
          \/ IsSelected(players, request.member_to_add)

\* variant: change_captain leaves the new captain in the members list
ApprovedTeamKeepsProposed(request, team) ==
    IF request.request_type = "remove_member"
    THEN IF request.member_to_remove = team.captain
         THEN [captain |-> team.members[1],
               members |-> Without(team.members, team.members[1])]
         ELSE [team EXCEPT !.members = Without(team.members, request.member_to_remove)]
    ELSE IF request.request_type = "change_captain"
    THEN [captain |-> request.proposed_captain,
          members |-> Append(team.members, team.captain)]
    ELSE [team EXCEPT !.members = Append(team.members, request.member_to_add)]

\* the team row after the update of the request's branch
ApprovedTeam(request, team) ==
    IF request.request_type = "remove_member"
    THEN IF request.member_to_remove = team.captain
         THEN [captain |-> team.members[1],
               members |-> Without(team.members, team.members[1])]
         ELSE [team EXCEPT !.members = Without(team.members, request.member_to_remove)]
    ELSE IF request.request_type = "change_captain"
    THEN [captain |-> request.proposed_captain,
          members |-> Append(Without(team.members, request.proposed_captain),
                             team.captain)]
    ELSE [team EXCEPT !.members = Append(team.members, request.member_to_add)]

\* variant: remove_member leaves the player row alone
ApprovedPlayersAddOnly(request, ps) ==
    IF request.request_type = "add_member"
    THEN SetSelected(ps, request.member_to_add, TRUE)
    ELSE ps

\* the players table after the update of the request's branch
ApprovedPlayers(request, ps) ==
    IF request.request_type = "remove_member"
    THEN SetSelected(ps, request.member_to_remove, FALSE)
    ELSE IF request.request_type = "add_member"
    THEN SetSelected(ps, request.member_to_add, TRUE)
    ELSE ps

\* the final update of the request row: {'status': 'approved'}
ApprovedRequest(request) == [request EXCEPT !.status = "approved"]

ApproveTeamChangeRequest(id) ==
    LET request == teamReqs[id]
        rec == [NoLast EXCEPT !.op = "approve_team_change_request",
                              !.req_id = id, !.team_id = request.team_id,
                              !.who = IF request.team_id \in TeamIds
                                      THEN teams[request.team_id].captain
                                      ELSE None]
    IN  /\ IF ApproveRaises(request)
           THEN /\ last' = [rec EXCEPT !.ok = FALSE]
                /\ UNCHANGED <<players, teams, teamReqs, idReqs>>
           ELSE /\ teams' = [teams EXCEPT ![request.team_id] =
                                ApprovedTeam(request, teams[request.team_id])]
                /\ players' = ApprovedPlayers(request, players)
                /\ teamReqs' = [teamReqs EXCEPT ![id] = ApprovedRequest(request)]
                /\ last' = [rec EXCEPT !.ok = TRUE]
                /\ UNCHANGED idReqs

(***************************************************************************)
(* update_team_change_request(request_id, status)                          *)
(***************************************************************************)
\* variant: the update has no filter on the id
UpdateEveryTeamChangeRequest(id, status) ==
    /\ teamReqs' = [i \in DOMAIN teamReqs |->
                        [teamReqs[i] EXCEPT !.status = status, !.processed_at = TRUE]]
    /\ last' = [NoLast EXCEPT !.op = "update_team_change_request", !.req_id = id,
                              !.who = status]
    /\ UNCHANGED <<players, teams, idReqs>>

UpdateTeamChangeRequest(id, status) ==
    /\ teamReqs' = [teamReqs EXCEPT ![id] =
                        [@ EXCEPT !.status = status, !.processed_at = TRUE]]
    /\ last' = [NoLast EXCEPT !.op = "update_team_change_request", !.req_id = id,
                              !.who = status]
    /\ UNCHANGED <<players, teams, idReqs>>

\* the admin panel's reject button, shown for the pending requests
RejectTeamChangeRequest(id) ==
    /\ teamReqs[id].status = "pending"
    /\ UpdateTeamChangeRequest(id, "rejected")

(***************************************************************************)
(* The change_requests table (identity changes).  A row's id is its index. *)
(***************************************************************************)
CreateChangeRequest(game_id, new_game_id, new_class) ==
    /\ Len(idReqs) < MaxIdReqs
    /\ idReqs' = Append(idReqs, [game_id |-> game_id, new_game_id |-> new_game_id,
                                 new_class |-> new_class, status |-> "pending"])
    /\ last' = [NoLast EXCEPT !.op = "create_change_request", !.who = game_id,
                              !.target = new_game_id, !.req_id = Len(idReqs) + 1]
    /\ UNCHANGED <<players, teams, teamReqs>>

\* update_change_request(request_id, status)
UpdateChangeRequest(id, status) ==
    /\ idReqs' = [idReqs EXCEPT ![id].status = status]
    /\ last' = [NoLast EXCEPT !.op = "update_change_request", !.req_id = id,
                              !.who = status]
    /\ UNCHANGED <<players, teams, teamReqs>>

RejectChangeRequest(id) ==
    /\ idReqs[id].status = "pending"
    /\ UpdateChangeRequest(id, "rejected")

(***************************************************************************)
(* approve_change_request(request)                                         *)
(***************************************************************************)
\* step 1: teams where old_id is the captain or a member
RelatedTeams(ts, old_id) ==
    {t \in DOMAIN ts : ts[t].captain = old_id \/ old_id \in Range(ts[t].members)}

CaptainedTeams(ts, old_id) == {t \in DOMAIN ts : ts[t].captain = old_id}

\* step 2: available_members = [m for m in team['members'] if m != old_id]
AvailableMembers(team, old_id) == Without(team.members, old_id)

\* step 2 raises for a captained team with no members or no other member
NoTempCaptain(ts, old_id) ==
    \E t \in CaptainedTeams(ts, old_id) : AvailableMembers(ts[t], old_id) = <<>>

\* step 2: the possible outcomes of random.choice for the captained teams
\* the loop has passed when it ends or raises; the rows come back in no
\* stated order
TempChoices(ts, old_id) ==
    UNION {[S -> UNION {Range(ts[t].members) : t \in S}] :
              S \in SUBSET CaptainedTeams(ts, old_id)}

ValidChoice(ts, old_id, choice) ==
    \A t \in DOMAIN choice : choice[t] \in Range(AvailableMembers(ts[t], old_id))

\* step 2: update({'captain': temp_captain}) of each captained team
WithTempCaptains(ts, choice) ==
    [t \in DOMAIN ts |->
        IF t \in DOMAIN choice THEN [ts[t] EXCEPT !.captain = choice[t]] ELSE ts[t]]

\* step 3: update(update_data).eq('game_id', old_id)
MutatedPlayers(ps, old_id, new_id, new_class) ==
    [d \in DOMAIN ps |->
        IF ps[d].game_id = old_id
        THEN [ps[d] EXCEPT !.game_id = new_id,
                           !.class = IF new_class # None THEN new_class ELSE @]
        ELSE ps[d]]

\* the store keeps players.game_id unique (the data model's "unique
\* game_id"): the update of step 3 is refused when another row holds new_id
MutationRefused(ps, old_id, new_id) ==
    /\ new_id # old_id
    /\ old_id \in {ps[d].game_id : d \in DOMAIN ps}
    /\ new_id \in {ps[d].game_id : d \in DOMAIN ps}

\* variant: old_id is taken out and new_id is added at the end
RenamedMembersAtEnd(members, old_id, new_id) ==
    IF old_id \in Range(members) THEN Append(Without(members, old_id), new_id)
    ELSE members

\* [new_id if m == old_id else m for m in team['members']]
RenamedMembers(members, old_id, new_id) ==
    [i \in DOMAIN members |-> IF members[i] = old_id THEN new_id ELSE members[i]]

\* variant: the captain test reads the row in the store
PropagatedTeamFromStore(snap, row, old_id, new_id) ==
    [captain |-> IF row.captain = old_id THEN new_id ELSE row.captain,
     members |-> IF old_id \in Range(snap.members)
                 THEN RenamedMembers(snap.members, old_id, new_id)
                 ELSE row.members]

\* step 4 for one team: update_team_data is built from the row read in step 1
\* (snap) and written over the row in the store (row)
PropagatedTeam(snap, row, old_id, new_id) ==
    [captain |-> IF snap.captain = old_id THEN new_id ELSE row.captain,
     members |-> IF old_id \in Range(snap.members)
                 THEN RenamedMembers(snap.members, old_id, new_id)
                 ELSE row.members]

\* step 4 for the teams of done
Propagated(snapshot, ts, done, old_id, new_id) ==
    [t \in DOMAIN ts |->
        IF t \in done THEN PropagatedTeam(snapshot[t], ts[t], old_id, new_id)
        ELSE ts[t]]

\* variant: no compensating write
RolledBackNothing(ts, changed, old_id) == ts

\* the except branch: update({'captain': old_captain}) for every temp change
RolledBack(ts, changed, old_id) ==
    [t \in DOMAIN ts |->
        IF t \in changed THEN [ts[t] EXCEPT !.captain = old_id] ELSE ts[t]]

FailPoints == {"none", "mutate", "propagate", "finalize"}

\* fail is the step at which the store raises; done, for a failure during
\* step 4, is the set of teams already written
ApproveChangeRequest(id, choice, fail, done) ==
    LET request == idReqs[id]
        old_id == request.game_id
        new_id == IF request.new_game_id # None THEN request.new_game_id ELSE old_id
        new_class == request.new_class
        related == RelatedTeams(teams, old_id)
        changed == CaptainedTeams(teams, old_id)
        rec == [NoLast EXCEPT !.op = "approve_change_request", !.req_id = id,
                              !.who = old_id, !.target = new_id]
        temp == WithTempCaptains(teams, choice)
        mutated == MutatedPlayers(players, old_id, new_id, new_class)
    IN  /\ IF NoTempCaptain(teams, old_id)
           THEN \* ValueError in step 2: choice holds the temporary captains
                \* written before the loop met a team with no other member,
                \* and the except branch undoes them
                /\ fail = "none" /\ done = {}
                /\ DOMAIN choice \subseteq changed
                /\ ValidChoice(teams, old_id, choice)
                /\ teams' = RolledBack(WithTempCaptains(teams, choice),
                                       DOMAIN choice, old_id)
                /\ last' = [rec EXCEPT !.ok = FALSE, !.fail = "temp_captain",
                                       !.writes = Cardinality(DOMAIN choice)]
                /\ UNCHANGED <<players, teamReqs, idReqs>>
           ELSE /\ DOMAIN choice = changed
                /\ ValidChoice(teams, old_id, choice)
                /\ \/ /\ fail = "mutate" \/ MutationRefused(players, old_id, new_id)
                      /\ fail \in {"none", "mutate"} /\ done = {}
                      /\ teams' = RolledBack(temp, changed, old_id)
                      /\ last' = [rec EXCEPT !.ok = FALSE, !.fail = "mutate"]
                      /\ UNCHANGED <<players, teamReqs, idReqs>>
                   \/ /\ fail = "propagate" /\ done # related /\ done \subseteq related
                      /\ ~MutationRefused(players, old_id, new_id)
                      /\ players' = mutated
                      /\ teams' = RolledBack(Propagated(teams, temp, done, old_id, new_id),
                                             changed, old_id)
                      /\ last' = [rec EXCEPT !.ok = FALSE, !.fail = "propagate"]
                      /\ UNCHANGED <<teamReqs, idReqs>>
                   \/ /\ fail = "finalize" /\ done = related
                      /\ ~MutationRefused(players, old_id, new_id)
                      /\ players' = mutated
                      /\ teams' = RolledBack(Propagated(teams, temp, done, old_id, new_id),
                                             changed, old_id)
                      /\ last' = [rec EXCEPT !.ok = FALSE, !.fail = "finalize"]
                      /\ UNCHANGED <<teamReqs, idReqs>>
                   \/ /\ fail = "none" /\ done = related
                      /\ ~MutationRefused(players, old_id, new_id)
                      /\ players' = mutated
                      /\ teams' = Propagated(teams, temp, done, old_id, new_id)
                      /\ idReqs' = [idReqs EXCEPT ![id].status = "approved"]
                      /\ last' = [rec EXCEPT !.ok = TRUE]
                      /\ UNCHANGED teamReqs

(***************************************************************************)
(* Inputs.                                                                 *)
(***************************************************************************)
\* every game_id the store mentions
KnownIds == PlayerIds \cup TeamPlayers(teams)

\* the member lists the callers of update_team_members build from the list
\* they read: one entry added at the end, or one game_id taken out
EditedLists(members) ==
    {Append(members, x) : x \in KnownIds} \cup {Without(members, x) : x \in KnownIds}

\* duplicate-free lists, as a multiselect widget returns them
Selections(S) == {s \in SeqsUpTo(S, Cardinality(S)) : ~HasDuplicates(s)}

Unselected == {players[d].game_id : d \in {e \in DOMAIN players : ~players[e].is_selected}}

\* the first n players of the roster, in display order
RosterPrefix(n) == [i \in 1..n |-> players[i].game_id]

(***************************************************************************)
(* The operations as the pages call them.                                  *)
(***************************************************************************)
\* main_page: the captain and the members are picked among the players not
\* yet selected, the members without the captain
CreateFromPage ==
    /\ \E captain \in Unselected :
           \E selected \in Selections(Unselected \ {captain}) :
               /\ MIN_TEAM_SIZE <= Len(selected) + 1
               /\ Len(selected) + 1 <= MAX_TEAM_SIZE
               /\ CreateTeam(captain, selected)
    /\ UNCHANGED calls

\* create_team_in_db called directly, with a prefix of the roster as members
\* (the captain may be among them)
CreateDirect ==
    /\ \E captain \in PlayerIds, n \in 0..Cardinality(DOMAIN players) :
           CreateTeam(captain, RosterPrefix(n))
    /\ UNCHANGED calls

\* display_team_info: the disband button passes the captain and the members
Dissolve ==
    /\ \E t \in TeamIds :
           DeleteTeamFromDb(t, <<teams[t].captain>> \o teams[t].members)
    /\ UNCHANGED calls

SetMembers ==
    /\ \E t \in TeamIds :
           \E members \in EditedLists(teams[t].members) : UpdateTeamMembers(t, members)
    /\ UNCHANGED calls

SetCaptain ==
    /\ \E t \in TeamIds, c \in KnownIds : UpdateTeamCaptain(t, c)
    /\ UNCHANGED calls

RemoveMember ==
    /\ \E t \in TeamIds, m \in KnownIds : RemoveMemberFromTeam(t, m)
    /\ UNCHANGED calls

Sweep ==
    /\ CheckAndFix
    /\ UNCHANGED calls

SubmitTeamChange ==
    /\ \E t \in TeamIds, type \in RequestTypes, requester \in KnownIds, target \in KnownIds :
           CreateTeamChangeRequest(t, type, requester, target)
    /\ UNCHANGED calls

ApproveTeamChange ==
    /\ \E id \in DOMAIN teamReqs :
           /\ teamReqs[id].status = "pending"
           /\ ApproveTeamChangeRequest(id)
    /\ UNCHANGED calls

RejectTeamChange ==
    /\ \E id \in DOMAIN teamReqs : RejectTeamChangeRequest(id)
    /\ UNCHANGED calls

SubmitIdentityChange ==
    /\ \E g \in PlayerIds, n \in FreshIds \cup PlayerIds, c \in GAME_CLASSES :
           CreateChangeRequest(g, n, c)
    /\ UNCHANGED calls

ApproveIdentityChange ==
    /\ \E id \in {i \in DOMAIN idReqs : idReqs[i].status = "pending"} :
           \E choice \in TempChoices(teams, idReqs[id].game_id),
              fail \in FailPoints, done \in SUBSET TeamIds :
               ApproveChangeRequest(id, choice, fail, done)
    /\ UNCHANGED calls

RejectIdentityChange ==
    /\ \E id \in DOMAIN idReqs : RejectChangeRequest(id)
    /\ UNCHANGED calls

(***************************************************************************)
(* delete_team_from_db statement by statement: one store request at a      *)
(* time, other sessions running between them.                              *)
(***************************************************************************)
DeleteTeamBegin(p, team_id, participants) ==
    /\ calls[p].op = "idle"
    /\ calls' = [calls EXCEPT ![p] =
                    [NoCall EXCEPT !.op = "delete_team_from_db",
                                   !.pc = IF participants = <<>> THEN "delete"
                                          ELSE "unselect",
                                   !.team_id = team_id, !.list = participants]]
    /\ UNCHANGED <<players, teams, teamReqs, idReqs, last>>

\* one turn of the loop: update_player_selection_status(member, False)
DeleteTeamUnselect(p) ==
    LET call == calls[p]
    IN  /\ call.op = "delete_team_from_db"
        /\ call.pc = "unselect"
        /\ players' = SetSelected(players, call.list[call.i + 1], FALSE)
        /\ calls' = [calls EXCEPT ![p].i = call.i + 1,
                                  ![p].pc = IF call.i + 1 = Len(call.list)
                                            THEN "delete" ELSE "unselect"]
        /\ UNCHANGED <<teams, teamReqs, idReqs, last>>

\* variant: the row is deleted whether or not the loop has ended
DeleteTeamDeleteEarly(p) ==
    LET call == calls[p]
    IN  /\ call.op = "delete_team_from_db"
        /\ call.pc \in {"unselect", "delete"}
        /\ teams' = DeleteTeam(teams, call.team_id)
        /\ calls' = [calls EXCEPT ![p].pc = "return",
                                  ![p].ret = (call.team_id \in TeamIds)]
        /\ UNCHANGED <<players, teamReqs, idReqs, last>>

\* supabase.table('teams').delete().eq("id", team_id), after the loop
DeleteTeamDelete(p) ==
    LET call == calls[p]
    IN  /\ call.op = "delete_team_from_db"
        /\ call.pc = "delete"
        /\ teams' = DeleteTeam(teams, call.team_id)
        /\ calls' = [calls EXCEPT ![p].pc = "return",
                                  ![p].ret = (call.team_id \in TeamIds)]
        /\ UNCHANGED <<players, teamReqs, idReqs, last>>

\* return bool(response.data)
DeleteTeamReturn(p) ==
    LET call == calls[p]
    IN  /\ call.op = "delete_team_from_db"
        /\ call.pc = "return"
        /\ calls' = [calls EXCEPT ![p] = NoCall]
        /\ last' = [NoLast EXCEPT !.op = "delete_team_from_db", !.ok = call.ret,
                                  !.team_id = call.team_id, !.members = call.list]
        /\ UNCHANGED <<players, teams, teamReqs, idReqs>>

\* display_team_info: the disband button of a session
DissolveBegin ==
    \E p \in Procs, t \in TeamIds :
        DeleteTeamBegin(p, t, <<teams[t].captain>> \o teams[t].members)

DissolveUnselect == \E p \in Procs : DeleteTeamUnselect(p)

DissolveDelete == \E p \in Procs : DeleteTeamDelete(p)

DissolveReturn == \E p \in Procs : DeleteTeamReturn(p)

(***************************************************************************)
(* create_team_in_db statement by statement.                               *)
(***************************************************************************)
\* the store keeps teams.id unique (the data model's "unique integer id"):
\* an insert with an id that a row holds is refused
InsertRefused(ts, id) == id \in DOMAIN ts

\* from the call to the read of the largest id: the filter, the two size
\* checks and select("id").order("id", desc=True).limit(1)
CreateTeamBegin(p, captain, input) ==
    LET members == Without(input, captain)
        next_id == NextTeamId(teams)
    IN  /\ calls[p].op = "idle"
        /\ CreateSizeOk(members)
        /\ next_id <= RaceTeams
        /\ calls' = [calls EXCEPT ![p] =
                        [NoCall EXCEPT !.op = "create_team_in_db", !.pc = "insert",
                                       !.captain = captain,
                                       !.list = <<captain>> \o members,
                                       !.seen = TeamIds, !.next_id = next_id]]
        /\ UNCHANGED <<players, teams, teamReqs, idReqs, last>>

\* variant: a taken id is read again before the insert
CreateTeamInsertRetry(p) ==
    LET call == calls[p]
    IN  /\ call.op = "create_team_in_db"
        /\ call.pc = "insert"
        /\ IF InsertRefused(teams, call.next_id)
           THEN /\ calls' = [calls EXCEPT ![p].next_id = NextTeamId(teams),
                                          ![p].seen = TeamIds]
                /\ UNCHANGED teams
           ELSE /\ teams' = InsertTeam(teams, call.next_id,
                                       [captain |-> call.captain,
                                        members |-> Tail(call.list)])
                /\ calls' = [calls EXCEPT ![p].pc = "select"]
        /\ UNCHANGED <<players, teamReqs, idReqs, last>>

\* insert({"id": next_id, ...}): the id is the one computed from the read,
\* whatever has been inserted since; a refused insert raises and the
\* decorator returns False
CreateTeamInsert(p) ==
    LET call == calls[p]
    IN  /\ call.op = "create_team_in_db"
        /\ call.pc = "insert"
        /\ IF InsertRefused(teams, call.next_id)
           THEN /\ calls' = [calls EXCEPT ![p].pc = "return", ![p].ret = FALSE]
                /\ UNCHANGED teams
           ELSE /\ teams' = InsertTeam(teams, call.next_id,
                                       [captain |-> call.captain,
                                        members |-> Tail(call.list)])
                /\ calls' = [calls EXCEPT ![p].pc = "select"]
        /\ UNCHANGED <<players, teamReqs, idReqs, last>>

\* update_player_selection_status(g, True) for the captain, then for each
\* member
CreateTeamSelect(p) ==
    LET call == calls[p]
    IN  /\ call.op = "create_team_in_db"
        /\ call.pc = "select"
        /\ players' = SetSelected(players, call.list[call.i + 1], TRUE)
        /\ calls' = [calls EXCEPT ![p].i = call.i + 1,
                                  ![p].pc = IF call.i + 1 = Len(call.list)
                                            THEN "return" ELSE "select",
                                  ![p].ret = TRUE]
        /\ UNCHANGED <<teams, teamReqs, idReqs, last>>

\* the call ends between the insert and the last flag write: the process
\* dies or the connection is lost, and the writes not yet made are never made
CreateTeamCrash(p) ==
    LET call == calls[p]
    IN  /\ call.op = "create_team_in_db"
        /\ call.pc = "select"
        /\ calls' = [calls EXCEPT ![p] = NoCall]
        /\ last' = [NoLast EXCEPT !.op = "create_team_in_db", !.ok = FALSE,
                                  !.fail = "crash", !.who = call.captain,
                                  !.members = Tail(call.list),
                                  !.team_id = call.next_id, !.writes = call.i]
        /\ UNCHANGED <<players, teams, teamReqs, idReqs>>

CreateTeamReturn(p) ==
    LET call == calls[p]
    IN  /\ call.op = "create_team_in_db"
        /\ call.pc = "return"
        /\ calls' = [calls EXCEPT ![p] = NoCall]
        /\ last' = [NoLast EXCEPT !.op = "create_team_in_db", !.ok = call.ret,
                                  !.who = call.captain, !.members = Tail(call.list),
                                  !.team_id = IF call.ret THEN call.next_id ELSE 0]
        /\ UNCHANGED <<players, teams, teamReqs, idReqs>>

\* main_page: the create form of a session
CreateBegin ==
    \E p \in Procs, captain \in Unselected :
        \E selected \in Selections(Unselected \ {captain}) :
            /\ MIN_TEAM_SIZE <= Len(selected) + 1
            /\ Len(selected) + 1 <= MAX_TEAM_SIZE
            /\ CreateTeamBegin(p, captain, selected)

CreateInsert == \E p \in Procs : CreateTeamInsert(p)

CreateSelect == \E p \in Procs : CreateTeamSelect(p)

CreateReturn == \E p \in Procs : CreateTeamReturn(p)

CreateCrash == \E p \in Procs : CreateTeamCrash(p)

\* the create form and the sweep button used while no call is in progress
CreateBeginAlone ==
    /\ calls = NoCalls
    /\ CreateBegin

SweepAlone ==
    /\ calls = NoCalls
    /\ Sweep

(***************************************************************************)
(* approve_change_request step by step: the discovery read, the temporary  *)
(* captains, the player update, one propagation write for each discovered  *)
(* team, the status update.  The rows read in step 1 are kept in snap.     *)
(***************************************************************************)
\* step 1
ChangeApproveBegin(p, id) ==
    LET request == idReqs[id]
        old_id == request.game_id
        new_id == IF request.new_game_id # None THEN request.new_game_id ELSE old_id
    IN  /\ calls[p].op = "idle"
        /\ request.status = "pending"
        /\ calls' = [calls EXCEPT ![p] =
                        [NoCall EXCEPT !.op = "approve_change_request", !.pc = "temp",
                                       !.req_id = id, !.old_id = old_id,
                                       !.new_id = new_id,
                                       !.snap = [t \in RelatedTeams(teams, old_id) |->
                                                    teams[t]]]]
        /\ UNCHANGED <<players, teams, teamReqs, idReqs, last>>

\* step 2, decided on the rows of step 1 and written to the store; when it
\* raises, the except branch undoes the writes made so far
ChangeApproveTemp(p, choice) ==
    LET call == calls[p]
    IN  /\ call.op = "approve_change_request"
        /\ call.pc = "temp"
        /\ ValidChoice(call.snap, call.old_id, choice)
        /\ IF NoTempCaptain(call.snap, call.old_id)
           THEN /\ DOMAIN choice \subseteq CaptainedTeams(call.snap, call.old_id)
                /\ teams' = RolledBack(WithTempCaptains(teams, choice),
                                       DOMAIN choice, call.old_id)
                /\ calls' = [calls EXCEPT ![p].pc = "return", ![p].ret = FALSE]
           ELSE /\ DOMAIN choice = CaptainedTeams(call.snap, call.old_id)
                /\ teams' = WithTempCaptains(teams, choice)
                /\ calls' = [calls EXCEPT ![p].pc = "mutate",
                                          ![p].changed = DOMAIN choice]
        /\ UNCHANGED <<players, teamReqs, idReqs, last>>

\* step 3; a refused update raises and the except branch runs
ChangeApproveMutate(p) ==
    LET call == calls[p]
    IN  /\ call.op = "approve_change_request"
        /\ call.pc = "mutate"
        /\ IF MutationRefused(players, call.old_id, call.new_id)
           THEN /\ teams' = RolledBack(teams, call.changed, call.old_id)
                /\ calls' = [calls EXCEPT ![p].pc = "return", ![p].ret = FALSE]
                /\ UNCHANGED players
           ELSE /\ players' = MutatedPlayers(players, call.old_id, call.new_id,
                                             idReqs[call.req_id].new_class)
                /\ calls' = [calls EXCEPT
                                ![p].pc = IF DOMAIN call.snap = {} THEN "finalize"
                                          ELSE "propagate",
                                ![p].todo = DOMAIN call.snap]
                /\ UNCHANGED teams
        /\ UNCHANGED <<teamReqs, idReqs, last>>

\* step 4 for one team: the columns are computed from the row of step 1
ChangeApprovePropagate(p, t) ==
    LET call == calls[p]
    IN  /\ call.op = "approve_change_request"
        /\ call.pc = "propagate"
        /\ t \in call.todo
        /\ teams' = IF t \in TeamIds
                    THEN [teams EXCEPT ![t] = PropagatedTeam(call.snap[t], teams[t],
                                                            call.old_id, call.new_id)]
                    ELSE teams
        /\ calls' = [calls EXCEPT ![p].todo = call.todo \ {t},
                                  ![p].pc = IF call.todo = {t} THEN "finalize"
                                            ELSE "propagate"]
        /\ UNCHANGED <<players, teamReqs, idReqs, last>>

\* step 5
ChangeApproveFinalize(p) ==
    LET call == calls[p]
    IN  /\ call.op = "approve_change_request"
        /\ call.pc = "finalize"
        /\ idReqs' = [idReqs EXCEPT ![call.req_id].status = "approved"]
        /\ calls' = [calls EXCEPT ![p].pc = "return", ![p].ret = TRUE]
        /\ UNCHANGED <<players, teams, teamReqs, last>>

ChangeApproveReturn(p) ==
    LET call == calls[p]
    IN  /\ call.op = "approve_change_request"
        /\ call.pc = "return"
        /\ calls' = [calls EXCEPT ![p] = NoCall]
        /\ last' = [NoLast EXCEPT !.op = "approve_change_request", !.ok = call.ret,
                                  !.req_id = call.req_id, !.who = call.old_id,
                                  !.target = call.new_id]
        /\ UNCHANGED <<players, teams, teamReqs, idReqs>>

\* admin_panel: the approve button of a session, and the steps of its call
IdentityApproveBegin ==
    \E p \in Procs, id \in DOMAIN idReqs : ChangeApproveBegin(p, id)

IdentityApproveTemp ==
    \E p \in Procs :
        \E choice \in TempChoices(calls[p].snap, calls[p].old_id) :
            ChangeApproveTemp(p, choice)

IdentityApproveMutate == \E p \in Procs : ChangeApproveMutate(p)

IdentityApprovePropagate ==
    \E p \in Procs, t \in 1..MaxTeams : ChangeApprovePropagate(p, t)

IdentityApproveFinalize == \E p \in Procs : ChangeApproveFinalize(p)

IdentityApproveReturn == \E p \in Procs : ChangeApproveReturn(p)

(***************************************************************************)
(* approve_team_change_request step by step: the read of the team row, the *)
(* read of the player's flag (add_member), the team update computed from   *)
(* the row that was read, the flag update, the status update.              *)
(***************************************************************************)
\* .single() on the team: no row raises and the call returns False
TeamApproveBegin(p, id) ==
    LET request == teamReqs[id]
        t == request.team_id
    IN  /\ calls[p].op = "idle"
        /\ request.status = "pending"
        /\ calls' = [calls EXCEPT ![p] =
                        IF t \notin TeamIds
                        THEN [NoCall EXCEPT !.op = "approve_team_change_request",
                                            !.pc = "return", !.req_id = id,
                                            !.team_id = t, !.ret = FALSE]
                        ELSE [NoCall EXCEPT !.op = "approve_team_change_request",
                                            !.pc = IF request.request_type = "add_member"
                                                   THEN "check" ELSE "write",
                                            !.req_id = id, !.team_id = t,
                                            !.snap = [u \in {t} |-> teams[t]]]]
        /\ UNCHANGED <<players, teams, teamReqs, idReqs, last>>

\* add_member: .single() on the player and the is_selected test
TeamApproveCheck(p) ==
    LET call == calls[p]
        request == teamReqs[call.req_id]
    IN  /\ call.op = "approve_team_change_request"
        /\ call.pc = "check"
        /\ calls' = [calls EXCEPT
                        ![p].pc = IF \/ ~HasSingleRow(players, request.member_to_add)
                                     \/ IsSelected(players, request.member_to_add)
                                  THEN "return" ELSE "write",
                        ![p].ret = FALSE]
        /\ UNCHANGED <<players, teams, teamReqs, idReqs, last>>

\* the update of the team row, its columns computed from the row of the read
TeamApproveWrite(p) ==
    LET call == calls[p]
        request == teamReqs[call.req_id]
        t == call.team_id
        team == call.snap[t]
    IN  /\ call.op = "approve_team_change_request"
        /\ call.pc = "write"
        /\ IF /\ request.request_type = "remove_member"
              /\ request.member_to_remove = team.captain
              /\ Len(team.members) = 0
           THEN /\ calls' = [calls EXCEPT ![p].pc = "return", ![p].ret = FALSE]
                /\ UNCHANGED teams
           ELSE /\ teams' = IF t \in TeamIds
                            THEN [teams EXCEPT ![t] = ApprovedTeam(request, team)]
                            ELSE teams
                /\ calls' = [calls EXCEPT
                                ![p].pc = IF request.request_type = "change_captain"
                                          THEN "status" ELSE "flag"]
        /\ UNCHANGED <<players, teamReqs, idReqs, last>>

\* the update of the player's flag
TeamApproveFlag(p) ==
    LET call == calls[p]
        request == teamReqs[call.req_id]
    IN  /\ call.op = "approve_team_change_request"
        /\ call.pc = "flag"
        /\ players' = ApprovedPlayers(request, players)
        /\ calls' = [calls EXCEPT ![p].pc = "status"]
        /\ UNCHANGED <<teams, teamReqs, idReqs, last>>

\* the update of the request row
TeamApproveStatus(p) ==
    LET call == calls[p]
    IN  /\ call.op = "approve_team_change_request"
        /\ call.pc = "status"
        /\ teamReqs' = [teamReqs EXCEPT ![call.req_id] =
                            ApprovedRequest(teamReqs[call.req_id])]
        /\ calls' = [calls EXCEPT ![p].pc = "return", ![p].ret = TRUE]
        /\ UNCHANGED <<players, teams, idReqs, last>>

TeamApproveReturn(p) ==
    LET call == calls[p]
    IN  /\ call.op = "approve_team_change_request"
        /\ call.pc = "return"
        /\ calls' = [calls EXCEPT ![p] = NoCall]
        /\ last' = [NoLast EXCEPT !.op = "approve_team_change_request",
                                  !.ok = call.ret, !.req_id = call.req_id,
                                  !.team_id = call.team_id]
        /\ UNCHANGED <<players, teams, teamReqs, idReqs>>

\* admin_panel: the approve button of a session, and the steps of its call
MembershipApproveBegin ==
    \E p \in Procs, id \in DOMAIN teamReqs : TeamApproveBegin(p, id)

MembershipApproveCheck == \E p \in Procs : TeamApproveCheck(p)

MembershipApproveWrite == \E p \in Procs : TeamApproveWrite(p)

MembershipApproveFlag == \E p \in Procs : TeamApproveFlag(p)

MembershipApproveStatus == \E p \in Procs : TeamApproveStatus(p)

MembershipApproveReturn == \E p \in Procs : TeamApproveReturn(p)

(***************************************************************************)
(* admin_panel, one run of the script in a session: the two lists of       *)
(* pending requests are read, then the handler of the clicked button is    *)
(* called with a row of the list that was read.                            *)
(***************************************************************************)
\* load_change_requests("pending") and load_team_change_requests("pending")
AdminLoad(p) ==
    /\ calls[p].op = "idle"
    /\ calls' = [calls EXCEPT ![p] =
                    [NoCall EXCEPT
                        !.op = "admin_panel", !.pc = "rendered",
                        !.requests = {i \in DOMAIN idReqs :
                                         idReqs[i].status = "pending"},
                        !.pending_requests = {i \in DOMAIN teamReqs :
                                                 teamReqs[i].status = "pending"}]]
    /\ UNCHANGED <<players, teams, teamReqs, idReqs, last>>

AdminApproveTeam(p) ==
    /\ calls[p].op = "admin_panel"
    /\ \E id \in calls[p].pending_requests : ApproveTeamChangeRequest(id)
    /\ calls' = [calls EXCEPT ![p] = NoCall]

AdminRejectTeam(p) ==
    /\ calls[p].op = "admin_panel"
    /\ \E id \in calls[p].pending_requests : UpdateTeamChangeRequest(id, "rejected")
    /\ calls' = [calls EXCEPT ![p] = NoCall]

AdminApproveIdentity(p) ==
    /\ calls[p].op = "admin_panel"
    /\ \E id \in calls[p].requests :
           \E choice \in TempChoices(teams, idReqs[id].game_id),
              fail \in FailPoints, done \in SUBSET TeamIds :
               ApproveChangeRequest(id, choice, fail, done)
    /\ calls' = [calls EXCEPT ![p] = NoCall]

AdminRejectIdentity(p) ==
    /\ calls[p].op = "admin_panel"
    /\ \E id \in calls[p].requests : UpdateChangeRequest(id, "rejected")
    /\ calls' = [calls EXCEPT ![p] = NoCall]

PanelLoad == \E p \in Procs : AdminLoad(p)

PanelApproveTeam == \E p \in Procs : AdminApproveTeam(p)

PanelRejectTeam == \E p \in Procs : AdminRejectTeam(p)

PanelApproveIdentity == \E p \in Procs : AdminApproveIdentity(p)

PanelRejectIdentity == \E p \in Procs : AdminRejectIdentity(p)

(***************************************************************************)
(* Specifications.                                                         *)
(***************************************************************************)
\* the team registry and the sweep
NextRegistry ==
    \/ CreateFromPage
    \/ Dissolve
    \/ SetMembers
    \/ SetCaptain
    \/ RemoveMember
    \/ Sweep
    \/ ResetSelection

SpecRegistry == Init /\ [][NextRegistry]_vars

\* the membership-change workflow
NextMembership ==
    \/ CreateFromPage
    \/ Dissolve
    \/ SubmitTeamChange
    \/ ApproveTeamChange
    \/ RejectTeamChange

SpecMembership == Init /\ [][NextMembership]_vars

\* the identity-change workflow
NextIdentity ==
    \/ CreateFromPage
    \/ Dissolve
    \/ RemoveMember
    \/ SubmitIdentityChange
    \/ ApproveIdentityChange
    \/ RejectIdentityChange

SpecIdentity == Init /\ [][NextIdentity]_vars

\* team creation at the size limits
InitBig ==
    /\ calls = NoCalls
    /\ players = Roster(BigRoster)
    /\ teams = <<>>
    /\ teamReqs = <<>>
    /\ idReqs = <<>>
    /\ last = NoLast

NextCreate ==
    \/ CreateDirect
    \/ Dissolve

SpecCreate == InitBig /\ [][NextCreate]_vars

\* the identity-change workflow on a registry of RenameTeams teams, as
\* create, "reset selection" and remove leave it: a player may lead or sit
\* in several teams, and a team may have lost all its members
TeamRows ==
    {[captain |-> c, members |-> m] :
        c \in Range(RosterPrefixIds(NumPlayers)),
        m \in Selections(Range(RosterPrefixIds(NumPlayers)))}

InitRename ==
    /\ calls = NoCalls
    /\ teams \in {ts \in [1..RenameTeams -> TeamRows] :
                     \A t \in 1..RenameTeams : ts[t].captain \notin Range(ts[t].members)}
    /\ players = SweepFix(Roster(NumPlayers), teams)
    /\ teamReqs = <<>>
    /\ idReqs = <<>>
    /\ last = NoLast

NextRename ==
    \/ SubmitIdentityChange
    \/ ApproveIdentityChange
    \/ RejectIdentityChange

SpecRename == InitRename /\ [][NextRename]_vars

\* the teams of a registry that create has filled
CreatedTeams ==
    {ts \in [1..MaxTeams -> TeamRows] :
        \A t \in 1..MaxTeams :
            /\ ts[t].captain \notin Range(ts[t].members)
            /\ ts[t].members # <<>>}

\* the reject buttons of the admin panel, on a store that holds one team and
\* RejectReqs pending requests of each workflow
StorableTeamRequests ==
    UNION {SubmittedRequest(t, type, requester, target) :
              t \in TeamIds, type \in RequestTypes,
              requester \in PlayerIds, target \in PlayerIds}

StorableIdRequests ==
    {[game_id |-> g, new_game_id |-> n, new_class |-> c, status |-> "pending"] :
        g \in PlayerIds, n \in FreshIds, c \in GAME_CLASSES}

InitReject ==
    /\ calls = NoCalls
    /\ teams \in CreatedTeams
    /\ players = SweepFix(Roster(NumPlayers), teams)
    /\ teamReqs \in SeqsOfLen(StorableTeamRequests, RejectReqs)
    /\ idReqs \in SeqsOfLen(StorableIdRequests, RejectReqs)
    /\ last = NoLast

NextReject ==
    \/ RejectTeamChange
    \/ RejectIdentityChange

SpecReject == InitReject /\ [][NextReject]_vars

\* sessions that dissolve teams while others read the store
InitDissolve ==
    /\ calls = NoCalls
    /\ teams \in CreatedTeams
    /\ players = SweepFix(Roster(NumPlayers), teams)
    /\ teamReqs = <<>>
    /\ idReqs = <<>>
    /\ last = NoLast

NextDissolve ==
    \/ DissolveBegin
    \/ DissolveUnselect
    \/ DissolveDelete
    \/ DissolveReturn

SpecDissolve == InitDissolve /\ [][NextDissolve]_vars

\* sessions that create teams at the same time
NextCreateRace ==
    \/ CreateBegin
    \/ CreateInsert
    \/ CreateSelect
    \/ CreateReturn

SpecCreateRace == Init /\ [][NextCreateRace]_vars

\* the approve and reject buttons of the admin panel, on a store that holds
\* one team and ApproveReqs membership requests submitted against it
InitApprove ==
    /\ calls = NoCalls
    /\ teams \in CreatedTeams
    /\ players = SweepFix(Roster(NumPlayers), teams)
    /\ teamReqs \in SeqsOfLen(StorableTeamRequests, ApproveReqs)
    /\ idReqs = <<>>
    /\ last = NoLast

NextApprove ==
    \/ ApproveTeamChange
    \/ RejectTeamChange

SpecApprove == InitApprove /\ [][NextApprove]_vars

\* member additions at the size limit: creates and the membership workflow
\* on the large roster
\* show_team_modification_page, the add-member form
SubmitAddMember ==
    /\ \E t \in TeamIds, requester \in KnownIds, target \in KnownIds :
           CreateTeamChangeRequest(t, "add_member", requester, target)
    /\ UNCHANGED calls

NextCapacity ==
    \/ CreateDirect
    \/ SubmitAddMember
    \/ ApproveTeamChange

SpecCapacity == InitBig /\ [][NextCapacity]_vars

\* an identity approval step by step while membership requests are approved,
\* on a store that holds one team and the pending requests of both tables
InitStale ==
    /\ calls = NoCalls
    /\ teams \in CreatedTeams
    /\ players = SweepFix(Roster(NumPlayers), teams)
    /\ teamReqs \in SeqsOfLen(StorableTeamRequests, MaxTeamReqs)
    /\ idReqs \in SeqsOfLen(StorableIdRequests, MaxIdReqs)
    /\ last = NoLast

NextStale ==
    \/ IdentityApproveBegin
    \/ IdentityApproveTemp
    \/ IdentityApproveMutate
    \/ IdentityApprovePropagate
    \/ IdentityApproveFinalize
    \/ IdentityApproveReturn
    \/ ApproveTeamChange

SpecStale == InitStale /\ [][NextStale]_vars

\* creates that may end before their flag writes, one call at a time, and
\* the sweep between calls
NextCrash ==
    \/ CreateBeginAlone
    \/ CreateInsert
    \/ CreateSelect
    \/ CreateReturn
    \/ CreateCrash
    \/ SweepAlone

SpecCrash == Init /\ [][NextCrash]_vars

\* two sessions approving membership requests step by step, on a store that
\* holds one team, RaceRoster players and ApproveReqs pending requests
InitApproveRace ==
    /\ calls = NoCalls
    /\ teams \in CreatedTeams
    /\ players = SweepFix(Roster(RaceRoster), teams)
    /\ teamReqs \in SeqsOfLen(StorableTeamRequests, ApproveReqs)
    /\ idReqs = <<>>
    /\ last = NoLast

NextApproveRace ==
    \/ MembershipApproveBegin
    \/ MembershipApproveCheck
    \/ MembershipApproveWrite
    \/ MembershipApproveFlag
    \/ MembershipApproveStatus
    \/ MembershipApproveReturn

SpecApproveRace == InitApproveRace /\ [][NextApproveRace]_vars

\* the admin panels of two sessions, on a store that holds one team and the
\* pending requests of both tables
NextPanel ==
    \/ PanelLoad
    \/ PanelApproveTeam
    \/ PanelRejectTeam
    \/ PanelApproveIdentity
    \/ PanelRejectIdentity

SpecPanel == InitStale /\ [][NextPanel]_vars

\* every operation on one store; the specifications above are its components
Next ==
    \/ CreateFromPage
    \/ CreateDirect
    \/ Dissolve
    \/ SetMembers
    \/ SetCaptain
    \/ RemoveMember
    \/ Sweep
    \/ ResetSelection
    \/ SubmitTeamChange
    \/ ApproveTeamChange
    \/ RejectTeamChange
    \/ SubmitIdentityChange
    \/ ApproveIdentityChange
    \/ RejectIdentityChange

Spec == Init /\ [][Next]_vars

(***************************************************************************)
(* Properties.                                                             *)
(***************************************************************************)
\* g is the captain or a member of some team
InSomeTeam(g) ==
    \E t \in TeamIds :
        \/ teams[t].captain = g
        \/ \E i \in 1..Len(teams[t].members) : teams[t].members[i] = g

\* the entries of s other than x, in order
RECURSIVE Removed(_, _)
Removed(s, x) ==
    IF s = <<>> THEN <<>>
    ELSE IF Head(s) = x THEN Removed(Tail(s), x)
    ELSE <<Head(s)>> \o Removed(Tail(s), x)

NoRepeats(s) == \A i, j \in 1..Len(s) : s[i] = s[j] => i = j

\* C1: every team's members list holds no game_id twice and does not hold
\* the team's captain.
C1_TeamsWellFormed ==
    \A t \in TeamIds :
        /\ NoRepeats(teams[t].members)
        /\ \A i \in 1..Len(teams[t].members) : teams[t].members[i] # teams[t].captain

\* C2: right after a sweep every player is flagged selected exactly when its
\* game_id is the captain or a member of some team.
C2_SweepRestoresConsistency ==
    last.op = "check_and_fix_selection_consistency" =>
        \A d \in DOMAIN players :
            players[d].is_selected <=> InSomeTeam(players[d].game_id)

\* a sweep that repaired a false positive and a false negative at once
C2_Witness ==
    /\ last.op = "check_and_fix_selection_consistency"
    /\ last.fp # {}
    /\ last.fn # {}

FlagsConsistent ==
    \A d \in DOMAIN players : players[d].is_selected <=> InSomeTeam(players[d].game_id)

\* C3: a sweep that follows a sweep, or that runs on a consistent state,
\* finds no false positive and no false negative and writes nothing.
C3_SweepIdempotent ==
    [][(/\ last'.op = "check_and_fix_selection_consistency"
        /\ \/ last.op = "check_and_fix_selection_consistency"
           \/ FlagsConsistent)
       => (/\ last'.fp = {}
           /\ last'.fn = {}
           /\ last'.writes = 0
           /\ players' = players)]_vars

\* a sweep that found nothing to repair, with a team in the store
C3_Witness ==
    /\ last.op = "check_and_fix_selection_consistency"
    /\ last.writes = 0
    /\ TeamIds # {}

\* C4: when approve of an identity request fails at the identity mutation,
\* the propagation or the finalization, every team old_id captained before
\* the call has captain old_id again and approve returns failure.
C4_RollbackRestoresCaptain ==
    [][(/\ last'.op = "approve_change_request"
        /\ last'.fail \in {"mutate", "propagate", "finalize"})
       => (/\ ~last'.ok
           /\ \A t \in TeamIds :
                teams[t].captain = last'.who =>
                    (t \in DOMAIN teams' /\ teams'[t].captain = last'.who))]_vars

\* a failed approve of a request of a captain, whose team is back under it
C4_Witness ==
    /\ last.op = "approve_change_request"
    /\ last.fail = "propagate"
    /\ \E t \in TeamIds : teams[t].captain = last.who

\* C5: after a successful approve of a change_captain request that was
\* submitted as remove_member, the former captain is not selected and is not
\* in the team's members.
C5_DemotedCaptainRemoved ==
    (/\ last.op = "approve_team_change_request"
     /\ last.ok
     /\ teamReqs[last.req_id].request_type = "change_captain"
     /\ teamReqs[last.req_id].original_request = "remove_member")
    => (/\ ~IsSelected(players, teamReqs[last.req_id].member_to_remove)
        /\ teamReqs[last.req_id].member_to_remove
              \notin Range(teams[last.team_id].members))

\* C6: a remove_member submission that targets the captain stores a
\* change_captain request that keeps the original type and the target and
\* proposes the first member (requester is the captain) or the requester
\* (requester is a member); no stored remove_member request targets the
\* captain of its snapshot.
C6_CaptainRemovalRewritten ==
    /\ [](\A id \in DOMAIN teamReqs :
            ~(/\ teamReqs[id].request_type = "remove_member"
              /\ teamReqs[id].member_to_remove = teamReqs[id].current_captain))
    /\ [][(/\ last'.op = "create_team_change_request"
           /\ last'.kind = "remove_member"
           /\ last'.team_id \in TeamIds
           /\ last'.target = teams[last'.team_id].captain
           /\ Len(teams[last'.team_id].members) >= 1
           /\ \/ last'.who = teams[last'.team_id].captain
              \/ \E i \in 1..Len(teams[last'.team_id].members) :
                    teams[last'.team_id].members[i] = last'.who)
          => (/\ last'.ok
              /\ Len(teamReqs') = Len(teamReqs) + 1
              /\ LET r == teamReqs'[Len(teamReqs')]
                     team == teams[last'.team_id]
                 IN  /\ r.request_type = "change_captain"
                     /\ r.original_request = "remove_member"
                     /\ r.member_to_remove = team.captain
                     /\ r.current_captain = team.captain
                     /\ r.status = "pending"
                     /\ r.proposed_captain =
                           IF last'.who = team.captain
                           THEN team.members[1] ELSE last'.who)]_vars

\* the captain of a team with two members asked to be removed
C6_Witness ==
    /\ last.op = "create_team_change_request"
    /\ last.ok
    /\ last.kind = "remove_member"
    /\ teamReqs[last.req_id].original_request = "remove_member"
    /\ last.who = teams[last.team_id].captain
    /\ Len(teams[last.team_id].members) = 2
    /\ teamReqs[last.req_id].proposed_captain = teams[last.team_id].members[1]

\* C7: setCaptain to a member B of a team with captain A makes B the captain
\* and the members the former members without B, in order, followed by A.
C7_HandoverToMember ==
    [][(/\ last'.op = "update_team_captain"
        /\ last'.team_id \in TeamIds
        /\ \E i \in 1..Len(teams[last'.team_id].members) :
              teams[last'.team_id].members[i] = last'.who)
       => (/\ last'.ok
           /\ teams'[last'.team_id].captain = last'.who
           /\ teams'[last'.team_id].members =
                 Removed(teams[last'.team_id].members, last'.who)
                    \o <<teams[last'.team_id].captain>>)]_vars

\* (A, [B, C]) has become (B, [C, A])
C7_Witness ==
    /\ last.op = "update_team_captain"
    /\ last.ok
    /\ last.who = "B"
    /\ teams[last.team_id] = [captain |-> "B", members |-> <<"C", "A">>]

\* the number of entries of s other than x
RECURSIVE CountOthers(_, _)
CountOthers(s, x) ==
    IF s = <<>> THEN 0
    ELSE (IF Head(s) = x THEN 0 ELSE 1) + CountOthers(Tail(s), x)

\* C8: create succeeds exactly when the captain plus the members other than
\* the captain number MIN_TEAM_SIZE to MAX_TEAM_SIZE; a failed create inserts
\* no team and changes no selection flag; a successful one stores the members
\* without the captain.
C8_CreateSizeBounds ==
    [][(last'.op = "create_team_in_db")
       => LET size == 1 + CountOthers(last'.members, last'.who)
          IN  /\ last'.ok <=> (MIN_TEAM_SIZE <= size /\ size <= MAX_TEAM_SIZE)
              /\ ~last'.ok => (teams' = teams /\ players' = players)
              /\ last'.ok =>
                    /\ DOMAIN teams' = DOMAIN teams \cup {last'.team_id}
                    /\ last'.team_id \notin DOMAIN teams
                    /\ teams'[last'.team_id].captain = last'.who
                    /\ teams'[last'.team_id].members = Removed(last'.members, last'.who)]_vars

\* a create of MAX_TEAM_SIZE + 1 was refused
C8_Witness ==
    /\ last.op = "create_team_in_db"
    /\ ~last.ok
    /\ 1 + CountOthers(last.members, last.who) = MAX_TEAM_SIZE + 1

\* C9: after a successful create every participant is selected; a dissolve
\* of that team with its captain and members, run next, leaves each of them
\* unselected and no row of that team.
C9_CreateThenDissolve ==
    /\ []((last.op = "create_team_in_db" /\ last.ok)
            => /\ last.team_id \in TeamIds
               /\ IsSelected(players, teams[last.team_id].captain)
               /\ \A i \in 1..Len(teams[last.team_id].members) :
                     IsSelected(players, teams[last.team_id].members[i]))
    /\ [][(/\ last.op = "create_team_in_db"
           /\ last.ok
           /\ last'.op = "delete_team_from_db"
           /\ last'.team_id = last.team_id)
          => (/\ last'.ok
              /\ last.team_id \notin DOMAIN teams'
              /\ ~IsSelected(players', teams[last.team_id].captain)
              /\ \A i \in 1..Len(teams[last.team_id].members) :
                    ~IsSelected(players', teams[last.team_id].members[i]))]_vars

\* a team of three was dissolved and nobody is selected
C9_Witness ==
    /\ last.op = "delete_team_from_db"
    /\ last.ok
    /\ Len(last.members) = 3
    /\ TeamIds = {}
    /\ \A d \in DOMAIN players : ~players[d].is_selected

\* C10: after a successful approve of a membership request the request is
\* approved and carries a processed_at timestamp.
C10_ApproveStampsRequest ==
    (last.op = "approve_team_change_request" /\ last.ok)
    => (/\ teamReqs[last.req_id].status = "approved"
        /\ teamReqs[last.req_id].processed_at)

\* C11: when approve of an identity request meets a team led by old_id that
\* has no member other than old_id, it fails: no player row changes, the
\* request stays pending, and every team old_id led is still led by old_id
\* (the temporary captains written on other teams during the call are undone).
C11_NoTempCaptainFails ==
    [][(/\ last'.op = "approve_change_request"
        /\ \E t \in TeamIds :
              /\ teams[t].captain = last'.who
              /\ \A i \in DOMAIN teams[t].members : teams[t].members[i] = last'.who)
       => (/\ ~last'.ok
           /\ players' = players
           /\ idReqs'[last'.req_id].status = "pending"
           /\ \A t \in TeamIds :
                teams[t].captain = last'.who =>
                    (t \in DOMAIN teams' /\ teams'[t].captain = last'.who))]_vars

\* an approve that failed for want of a temporary captain after it had
\* written one on another team
C11_Witness ==
    /\ last.op = "approve_change_request"
    /\ ~last.ok
    /\ last.fail = "temp_captain"
    /\ last.writes >= 1
    /\ \E t \in TeamIds : teams[t].captain = last.who /\ teams[t].members # <<>>
    /\ \E t \in TeamIds : teams[t].captain = last.who /\ teams[t].members = <<>>

\* C12: after a successful approve of an identity request with new_id
\* different from old_id, every team old_id led is led by new_id, every
\* members list holds new_id exactly where it held old_id and is otherwise
\* unchanged, no team mentions old_id, and the request is approved.
C12_RenamePropagated ==
    [][(/\ last'.op = "approve_change_request"
        /\ last'.ok
        /\ last'.target # last'.who)
       => (/\ DOMAIN teams' = DOMAIN teams
           /\ \A t \in TeamIds :
                /\ teams[t].captain = last'.who => teams'[t].captain = last'.target
                /\ Len(teams'[t].members) = Len(teams[t].members)
                /\ \A i \in DOMAIN teams[t].members :
                      teams'[t].members[i] =
                          IF teams[t].members[i] = last'.who THEN last'.target
                          ELSE teams[t].members[i]
           /\ last'.who \notin TeamPlayers(teams')
           /\ idReqs'[last'.req_id].status = "approved")]_vars

\* a successful rename of a player who led one team and was listed, not in
\* the last place, in another
C12_Witness ==
    /\ last.op = "approve_change_request"
    /\ last.ok
    /\ last.target # last.who
    /\ \E t \in TeamIds : teams[t].captain = last.target
    /\ \E t \in TeamIds :
          /\ Len(teams[t].members) >= 2
          /\ teams[t].members[1] = last.target

\* C13: approve of an add_member request (the team and the target's player
\* row being there) reads the target's is_selected again: when it is true the
\* approve fails, the teams and the players are unchanged and the request
\* stays pending; when it is false the target is appended at the end of
\* members and its is_selected becomes true.
C13_AddMemberRechecked ==
    [][(/\ last'.op = "approve_team_change_request"
        /\ teamReqs[last'.req_id].request_type = "add_member"
        /\ teamReqs[last'.req_id].team_id \in TeamIds
        /\ HasSingleRow(players, teamReqs[last'.req_id].member_to_add))
       => LET request == teamReqs[last'.req_id]
              target == request.member_to_add
              t == request.team_id
          IN  IF IsSelected(players, target)
              THEN /\ ~last'.ok
                   /\ teams' = teams
                   /\ players' = players
                   /\ teamReqs'[last'.req_id].status = "pending"
              ELSE /\ last'.ok
                   /\ teams'[t].captain = teams[t].captain
                   /\ teams'[t].members = Append(teams[t].members, target)
                   /\ IsSelected(players', target)]_vars

\* an approve of add_member refused because the target, free when the
\* request was stored, has joined a team since
C13_Witness ==
    /\ last.op = "approve_team_change_request"
    /\ ~last.ok
    /\ teamReqs[last.req_id].request_type = "add_member"
    /\ teamReqs[last.req_id].status = "pending"
    /\ teamReqs[last.req_id].team_id \in TeamIds
    /\ IsSelected(players, teamReqs[last.req_id].member_to_add)

\* C14: submit of a membership-change request by a requester who is neither
\* the captain of the team nor in its members list fails and stores nothing;
\* the teams and the players are unchanged.
C14_OutsiderRefused ==
    [][(/\ last'.op = "create_team_change_request"
        /\ last'.team_id \in TeamIds
        /\ last'.who # teams[last'.team_id].captain
        /\ last'.who \notin Range(teams[last'.team_id].members))
       => (/\ ~last'.ok
           /\ teamReqs' = teamReqs
           /\ teams' = teams
           /\ players' = players)]_vars

\* a refused add_member submit by an outsider, for a target that is free
C14_Witness ==
    /\ last.op = "create_team_change_request"
    /\ ~last.ok
    /\ last.kind = "add_member"
    /\ last.team_id \in TeamIds
    /\ last.who # teams[last.team_id].captain
    /\ last.who \notin Range(teams[last.team_id].members)
    /\ HasSingleRow(players, last.target)
    /\ ~IsSelected(players, last.target)
    /\ teamReqs = <<>>

\* C15: a change_captain submit is stored exactly when the requester is the
\* captain of the team and the proposed captain is in its members list, and
\* stores nothing otherwise; so every stored change_captain request without
\* original_request has requester_id equal to its current_captain.
C15_ChangeCaptainByCaptain ==
    [][/\ (/\ last'.op = "create_team_change_request"
            /\ last'.kind = "change_captain")
           => (/\ last'.ok <=>
                     (/\ last'.team_id \in TeamIds
                      /\ last'.who = teams[last'.team_id].captain
                      /\ last'.target \in Range(teams[last'.team_id].members))
               /\ ~last'.ok => teamReqs' = teamReqs)
       /\ \A i \in DOMAIN teamReqs' :
             (/\ teamReqs'[i].request_type = "change_captain"
              /\ teamReqs'[i].original_request = None)
                => teamReqs'[i].requester_id = teamReqs'[i].current_captain]_vars

\* a change_captain request of the captain is stored, and a member's
\* change_captain submit naming a member has just been refused
C15_Witness ==
    /\ last.op = "create_team_change_request"
    /\ ~last.ok
    /\ last.kind = "change_captain"
    /\ last.team_id \in TeamIds
    /\ last.who \in Range(teams[last.team_id].members)
    /\ last.who # teams[last.team_id].captain
    /\ last.target \in Range(teams[last.team_id].members)
    /\ \E i \in DOMAIN teamReqs :
          /\ teamReqs[i].request_type = "change_captain"
          /\ teamReqs[i].original_request = None

\* C16: approve of a remove_member request whose target is not the captain
\* of the team leaves the captain unchanged, sets members to the previous
\* members without the target, in the same order, and sets the target's
\* is_selected to false.
C16_RemoveMemberApproved ==
    [][(/\ last'.op = "approve_team_change_request"
        /\ teamReqs[last'.req_id].request_type = "remove_member"
        /\ teamReqs[last'.req_id].team_id \in TeamIds
        /\ teamReqs[last'.req_id].member_to_remove #
               teams[teamReqs[last'.req_id].team_id].captain)
       => LET request == teamReqs[last'.req_id]
              target == request.member_to_remove
              t == request.team_id
          IN  /\ last'.ok
              /\ teams'[t].captain = teams[t].captain
              /\ teams'[t].members = Removed(teams[t].members, target)
              /\ ~IsSelected(players', target)]_vars

\* an approved removal of a listed member that left a member behind
C16_Witness ==
    /\ last.op = "approve_team_change_request"
    /\ last.ok
    /\ teamReqs[last.req_id].request_type = "remove_member"
    /\ teamReqs[last.req_id].status = "approved"
    /\ last.team_id \in TeamIds
    /\ teamReqs[last.req_id].member_to_remove \notin
           {teams[last.team_id].captain} \cup Range(teams[last.team_id].members)
    /\ teams[last.team_id].members # <<>>
    /\ ~IsSelected(players, teamReqs[last.req_id].member_to_remove)

\* C17: reject changes the targeted request only.  In the membership
\* workflow its status becomes rejected and processed_at is stamped; in the
\* identity workflow its status becomes rejected.  The teams, the players
\* and every other request of either table are unchanged.
C17_RejectChangesOneRequest ==
    [][/\ (/\ last'.op = "update_team_change_request"
            /\ last'.who = "rejected")
           => (/\ teams' = teams
               /\ players' = players
               /\ idReqs' = idReqs
               /\ DOMAIN teamReqs' = DOMAIN teamReqs
               /\ \A i \in DOMAIN teamReqs :
                     teamReqs'[i] =
                         IF i = last'.req_id
                         THEN [teamReqs[i] EXCEPT !.status = "rejected",
                                                  !.processed_at = TRUE]
                         ELSE teamReqs[i])
       /\ (/\ last'.op = "update_change_request"
            /\ last'.who = "rejected")
           => (/\ teams' = teams
               /\ players' = players
               /\ teamReqs' = teamReqs
               /\ DOMAIN idReqs' = DOMAIN idReqs
               /\ \A i \in DOMAIN idReqs :
                     idReqs'[i] =
                         IF i = last'.req_id
                         THEN [idReqs[i] EXCEPT !.status = "rejected"]
                         ELSE idReqs[i])]_vars

\* one request of each table has been rejected, the membership request
\* last, and another request of each table is still pending
C17_Witness ==
    /\ last.op = "update_team_change_request"
    /\ \E i, j \in DOMAIN teamReqs :
          /\ teamReqs[i].status = "rejected" /\ teamReqs[i].processed_at
          /\ teamReqs[j].status = "pending" /\ ~teamReqs[j].processed_at
    /\ \E i, j \in DOMAIN idReqs :
          /\ idReqs[i].status = "rejected"
          /\ idReqs[j].status = "pending"

\* C18: in every state of a dissolve call, the states between its store
\* requests included, the team row of the call is still there or none of the
\* participants passed to the call has is_selected = true: the flags are
\* all written before the row is deleted.
C18_UnselectedBeforeDeleted ==
    \A p \in Procs :
        (/\ calls[p].op = "delete_team_from_db"
         /\ calls[p].team_id \notin TeamIds)
        => \A k \in DOMAIN calls[p].list : ~IsSelected(players, calls[p].list[k])

\* a dissolve call that has deleted its team row and has not returned yet
C18_Witness ==
    \E p \in Procs :
        /\ calls[p].op = "delete_team_from_db"
        /\ calls[p].pc = "return"
        /\ calls[p].ret
        /\ calls[p].team_id \notin TeamIds
        /\ calls[p].i = Len(calls[p].list)
        /\ Len(calls[p].list) >= 2

\* C19: two create calls that have both read the largest team id from the
\* same rows hold the same next id; and a call that has read goes on to the
\* insert with the id it computed, with no second read and no check, so both
\* calls attempt the same id.
C19_SameIdAttempted ==
    [][/\ \A p, q \in Procs :
             (/\ calls'[p].op = "create_team_in_db" /\ calls'[p].pc = "insert"
              /\ calls'[q].op = "create_team_in_db" /\ calls'[q].pc = "insert"
              /\ calls'[p].seen = calls'[q].seen)
                => calls'[p].next_id = calls'[q].next_id
       /\ \A p \in Procs :
             (/\ calls[p].op = "create_team_in_db" /\ calls[p].pc = "insert"
              /\ calls'[p] # calls[p])
                => (/\ calls'[p].next_id = calls[p].next_id
                    /\ \/ /\ calls'[p].pc = "select"
                          /\ calls[p].next_id \notin DOMAIN teams
                          /\ calls[p].next_id \in DOMAIN teams'
                          /\ teams'[calls[p].next_id].captain = calls[p].captain
                       \/ /\ calls'[p].pc = "return"
                          /\ ~calls'[p].ret
                          /\ calls[p].next_id \in DOMAIN teams
                          /\ teams' = teams)]_vars

\* two calls read before either inserted and computed the same id; the
\* insert of one is stored and the insert of the other has been refused
C19_Witness ==
    \E p, q \in Procs :
        /\ p # q
        /\ calls[p].op = "create_team_in_db"
        /\ calls[q].op = "create_team_in_db"
        /\ calls[p].seen = calls[q].seen
        /\ calls[p].next_id = calls[q].next_id
        /\ calls[p].pc = "return" /\ ~calls[p].ret
        /\ calls[q].pc \in {"select", "return"}
        /\ calls[q].next_id \in TeamIds
        /\ teams[calls[q].next_id].captain = calls[q].captain

\* C20: in a sequential series of create and dissolve calls, a team created
\* right after a dissolve gets an id greater than the id of the dissolved
\* team: the id of a dissolved team is not given out again.
C20_IdsNeverReused ==
    [][(/\ last.op = "delete_team_from_db" /\ last.ok
        /\ last'.op = "create_team_in_db" /\ last'.ok)
       => last'.team_id > last.team_id]_vars

\* C21: update_team_members on a stored team with a list that holds an entry
\* twice returns failure and changes nothing; with a list without repeats it
\* stores exactly that list as members and leaves the captain unchanged.
C21_SetMembersRejectsDuplicates ==
    [][(/\ last'.op = "update_team_members"
        /\ last'.team_id \in TeamIds)
       => IF \E i, j \in DOMAIN last'.members :
                 i # j /\ last'.members[i] = last'.members[j]
          THEN /\ ~last'.ok
               /\ UNCHANGED <<players, teams, teamReqs, idReqs>>
          ELSE /\ last'.ok
               /\ teams'[last'.team_id].members = last'.members
               /\ teams'[last'.team_id].captain = teams[last'.team_id].captain
               /\ UNCHANGED <<players, teamReqs, idReqs>>]_vars

\* a refused update whose list names a player at two places that are not
\* next to each other
C21_Witness ==
    /\ last.op = "update_team_members"
    /\ ~last.ok
    /\ last.team_id \in TeamIds
    /\ Len(last.members) >= 3
    /\ last.members[1] = last.members[Len(last.members)]
    /\ teams[last.team_id].members # last.members

\* C22 (as stated): whenever approve processes a stored remove_member
\* request, its member_to_remove is not the captain the team has then.
C22_CaptainBranchUnreachable ==
    [][(/\ last'.op = "approve_team_change_request"
        /\ teamReqs[last'.req_id].request_type = "remove_member"
        /\ teamReqs[last'.req_id].team_id \in TeamIds)
       => teamReqs[last'.req_id].member_to_remove #
              teams[teamReqs[last'.req_id].team_id].captain]_vars

\* C22 (amended): the member_to_remove of a stored remove_member request is
\* not the captain the team had when the request was submitted, the
\* current_captain of the row.
C22_NotCaptainWhenSubmitted ==
    \A i \in DOMAIN teamReqs :
        teamReqs[i].request_type = "remove_member"
            => teamReqs[i].member_to_remove # teamReqs[i].current_captain

\* an approved remove_member request whose target, a member when the request
\* was submitted, was the captain of the team when approve read it
C22_Witness ==
    /\ last.op = "approve_team_change_request"
    /\ last.ok
    /\ teamReqs[last.req_id].request_type = "remove_member"
    /\ teamReqs[last.req_id].member_to_remove = last.who
    /\ teamReqs[last.req_id].member_to_remove # teamReqs[last.req_id].current_captain

\* C23: approve of a change_captain request makes proposed_captain the
\* captain only if that player is the captain or in the members list of the
\* team when approve reads it; a proposed captain who has left the team
\* since the request was submitted does not become captain.
C23_HandoverPreconditionAtApproval ==
    [][(/\ last'.op = "approve_team_change_request"
        /\ teamReqs[last'.req_id].request_type = "change_captain"
        /\ last'.team_id \in TeamIds
        /\ teamReqs[last'.req_id].proposed_captain \notin
               {teams[last'.team_id].captain} \cup Range(teams[last'.team_id].members))
       => (/\ last'.team_id \in DOMAIN teams'
           /\ teams'[last'.team_id].captain #
                  teamReqs[last'.req_id].proposed_captain)]_vars

\* C24: for a proposed_captain that is in the members list of the team when
\* approve reads it, approve of a change_captain request writes the captain
\* and the members list that update_team_captain(team, proposed_captain)
\* writes on the same team.
C24_ApproveIsSetCaptain ==
    [][(/\ last'.op = "approve_team_change_request"
        /\ teamReqs[last'.req_id].request_type = "change_captain"
        /\ last'.team_id \in TeamIds
        /\ teamReqs[last'.req_id].proposed_captain \in
               Range(teams[last'.team_id].members))
       => LET team == teams[last'.team_id]
              proposed == teamReqs[last'.req_id].proposed_captain
          IN  /\ last'.ok
              /\ ~CaptainRejected(team, proposed)
              /\ teams'[last'.team_id] =
                     [captain |-> proposed,
                      members |-> HandoverMembers(team, proposed)]]_vars

\* an approved handover to a member of a team that had two members
C24_Witness ==
    /\ last.op = "approve_team_change_request"
    /\ last.ok
    /\ teamReqs[last.req_id].request_type = "change_captain"
    /\ last.team_id \in TeamIds
    /\ teams[last.team_id].captain = teamReqs[last.req_id].proposed_captain
    /\ Len(teams[last.team_id].members) = 2
    /\ teams[last.team_id].members[2] = last.who
    /\ teams[last.team_id].captain \notin Range(teams[last.team_id].members)

\* C25: after any sequence of creates and approved add_member requests, the
\* captain and the members of every team are at most MAX_TEAM_SIZE players.
C25_TeamsWithinCapacity ==
    \A t \in TeamIds : 1 + Len(teams[t].members) <= MAX_TEAM_SIZE

\* C26: when the members list of a discovered team has changed between the
\* discovery read of an identity approve and its propagation write on that
\* team, the list after the write holds the same players as the list before
\* it, old_id apart: the change is not overwritten by the rows of the read.
C26_PropagationKeepsChanges ==
    [][\A p \in Procs, t \in TeamIds :
          (/\ calls[p].op = "approve_change_request"
           /\ calls[p].pc = "propagate"
           /\ t \in calls[p].todo
           /\ t \notin calls'[p].todo
           /\ teams[t].members # calls[p].snap[t].members)
          => \A g \in TeamPlayers(teams) \cup TeamPlayers(teams') :
                g \notin {calls[p].old_id, calls[p].new_id}
                   => (g \in Range(teams[t].members)
                          <=> g \in Range(teams'[t].members))]_vars

\* players of some team whose flag is false
Drifted ==
    {players[d].game_id : d \in {e \in DOMAIN players :
                                    /\ InSomeTeam(players[e].game_id)
                                    /\ ~players[e].is_selected}}

\* the player whose flag a create call in progress writes next
NextFlagWrites ==
    {calls[p].list[calls[p].i + 1] :
        p \in {q \in Procs : /\ calls[q].op = "create_team_in_db"
                              /\ calls[q].pc = "select"}}

C28_BothAddedMembersKept ==
    \A i \in DOMAIN teamReqs, j \in DOMAIN teamReqs :
        (/\ calls = NoCalls
         /\ teamReqs[i].request_type = "add_member"
         /\ teamReqs[j].request_type = "add_member"
         /\ teamReqs[i].team_id = teamReqs[j].team_id
         /\ teamReqs[i].team_id \in TeamIds
         /\ teamReqs[i].member_to_add # teamReqs[j].member_to_add
         /\ teamReqs[i].status = "approved"
         /\ teamReqs[j].status = "approved")
        => {teamReqs[i].member_to_add, teamReqs[j].member_to_add}
              \subseteq Range(teams[teamReqs[i].team_id].members)

\* C29: no game_id is the captain or a member of more than one team.
C29_PlayerInOneTeam ==
    \A t \in TeamIds, u \in TeamIds :
        t # u => ({teams[t].captain} \cup Range(teams[t].members))
                    \cap ({teams[u].captain} \cup Range(teams[u].members)) = {}

\* C30: when every captain and every member is the game_id of a player row
\* before an identity approve, the same holds when the approve has returned,
\* with success or after the rollback of a failure at any step.
C30_ApproveLeavesNoDanglingId ==
    [][(/\ last'.op = "approve_change_request"
        /\ TeamPlayers(teams) \subseteq PlayerIds)
       => TeamPlayers(teams') \subseteq PlayerIds']_vars

\* C31: an approve or a reject called by an admin session on a request whose
\* status is already approved or rejected changes neither the status of the
\* request nor any team or player.
C31_DecidedRequestIsFinal ==
    [][\A p \in Procs :
          (/\ calls[p].op = "admin_panel"
           /\ calls'[p] = NoCall)
          => /\ (/\ last'.op \in {"approve_team_change_request",
                                  "update_team_change_request"}
                 /\ teamReqs[last'.req_id].status # "pending")
                => /\ teamReqs'[last'.req_id].status = teamReqs[last'.req_id].status
                   /\ teams' = teams
                   /\ players' = players
             /\ (/\ last'.op \in {"approve_change_request", "update_change_request"}
                 /\ idReqs[last'.req_id].status # "pending")
                => /\ idReqs'[last'.req_id].status = idReqs[last'.req_id].status
                   /\ teams' = teams
                   /\ players' = players]_vars

\* C32: the teams, the players and the request status after an identity
\* approve are determined by the state before it, the request and the step
\* at which it failed, whichever member was picked as temporary captain: on
\* success every discovered team is the row read in step 1 with old_id
\* renamed, and after a rollback every captained team has captain old_id.
C32_OutcomeIgnoresTempCaptain ==
    [][last'.op = "approve_change_request"
       => LET id == last'.req_id
              old_id == idReqs[id].game_id
              new_id == IF idReqs[id].new_game_id # None
                        THEN idReqs[id].new_game_id ELSE old_id
              related == RelatedTeams(teams, old_id)
              changed == CaptainedTeams(teams, old_id)
              mutated == MutatedPlayers(players, old_id, new_id, idReqs[id].new_class)
          IN  IF last'.ok
              THEN /\ teams' = Propagated(teams, teams, related, old_id, new_id)
                   /\ players' = mutated
                   /\ idReqs' = [idReqs EXCEPT ![id].status = "approved"]
              ELSE /\ idReqs' = idReqs
                   /\ IF last'.fail \in {"temp_captain", "mutate"}
                      THEN teams' = teams /\ players' = players
                      ELSE /\ players' = mutated
                           /\ \E done \in SUBSET related :
                                 teams' = RolledBack(Propagated(teams, teams, done,
                                                                old_id, new_id),
                                                     changed, old_id)]_vars

\* an approve has succeeded on a team where two members could have been the
\* temporary captain
C32_Witness ==
    /\ last.op = "approve_change_request"
    /\ last.ok
    /\ last.target # last.who
    /\ \E t \in TeamIds : /\ teams[t].captain = last.target
                          /\ Len(teams[t].members) >= 2

====
